---- MODULE Spec2Model ----
(***************************************************************************)
(* Model of the UCI codec of ivy-engine: the tokenizer, the classifier and  *)
(* the command parsers (src/src/uci/cmd) and the message builders          *)
(* (src/src/uci/msg).                                                      *)
(*                                                                         *)
(* A token is a TLA+ string; a Command is the sequence of its tokens.      *)
(* Characters are one-character strings, read with SubSeq(s, i, i).        *)
(* The alphabet is ASCII: the character classes of the regular             *)
(* expressions and of the tokenizer are exact on ASCII; the non-ASCII      *)
(* members of Unicode's Nd and White_Space are outside the model.          *)
(* A u64 value is written as its canonical decimal string (no sign, no     *)
(* leading zero), because 2^64-1 does not fit the model checker's          *)
(* integers; two u64 values are equal iff their canonical strings are.     *)
(***************************************************************************)
EXTENDS Integers, Sequences, FiniteSets, TLC

VARIABLES
  line,      \* the input line given to Command::new
  tokens,    \* Command.tokens of the command handed to the parser
  info,      \* the &[MoveInfo] given to build_info_msg
  option,    \* the OptionMsg given to build_option_msg
  fn,        \* the function that was called ("none" before the call)
  pc,        \* "line" | "ready" | "go_scan" | "done"
  it,        \* try_parse_go_cmd: index in tokens of the iterator's next item
  token,     \* try_parse_go_cmd: index of the token bound by `while let`
  movetime,  \* try_parse_go_cmd: local `movetime`
  infinite,  \* try_parse_go_cmd: local `infinite`
  result     \* the value the parser returned (NoResult before it returns)

vars == <<line, tokens, info, option, fn, pc, it, token, movetime, infinite, result>>

\* what the caller supplies: no function changes it once it is built
Given == <<line, tokens, info, option>>

----------------------------------------------------------------------------
(* Strings                                                                 *)

Ch(s, i) == SubSeq(s, i, i)

InClass(c, class) == \E k \in 1..Len(class) : Ch(class, k) = c

\* [&str]::join(" ")
RECURSIVE Join(_)
Join(parts) ==
  IF Len(parts) = 0 THEN ""
  ELSE IF Len(parts) = 1 THEN parts[1]
  ELSE parts[1] \o " " \o Join(Tail(parts))

----------------------------------------------------------------------------
(* ParsingError and the payloads                                           *)

\* usize::MAX on a 64-bit target, as a decimal string
USIZE_MAX == "18446744073709551615"

InvalidCommandType(expected, got) ==
  [ok |-> FALSE, err |-> "InvalidCommandType", expected |-> expected, got |-> got]

InvalidLength(min, max, got) ==
  [ok |-> FALSE, err |-> "InvalidLength", min |-> min, max |-> max, got |-> got]

UnknownToken(tok) ==
  [ok |-> FALSE, err |-> "UnknownToken", token |-> tok]

PositionCommandPayload(fen, moves) ==
  [ok |-> TRUE, fen |-> fen, moves |-> moves]

GoCommandPayload(mt, inf) ==
  [ok |-> TRUE, movetime |-> mt, infinite |-> inf]

NoResult == [ok |-> FALSE, err |-> "none"]

----------------------------------------------------------------------------
(* The regular expressions, as sets of match positions.  A position is the *)
(* number of characters matched so far; every combinator maps the set of   *)
(* positions before a subexpression to the set of positions after it, so   *)
(* that the whole expression matches iff Len(s) is among the positions     *)
(* after its last part.                                                    *)

RankItemClass == "pnbrqkPNBRQK12345678"
FileClass == "abcdefgh"
RankClass == "12345678"
EnPassantRankClass == "3456"
PromotionClass == "rnbqRNBQ"
\* \d and \s on the model's alphabet, the ASCII characters: the digits 0-9,
\* and space, \t, \n, \r, \f and the vertical tab U+000B (written raw, as
\* the last character of the string, for want of an escape)
DigitClass == "0123456789"
SpaceClass == " \t\n\r\f"

\* a literal
Lit(s, P, w) ==
  {i + Len(w) : i \in {p \in P : p + Len(w) <= Len(s) /\ SubSeq(s, p + 1, p + Len(w)) = w}}

\* [class]
One(s, P, class) ==
  {i + 1 : i \in {p \in P : p + 1 <= Len(s) /\ InClass(Ch(s, p + 1), class)}}

\* [class]?
Opt(s, P, class) == P \cup One(s, P, class)

Min(a, b) == IF a <= b THEN a ELSE b

\* [class]{lo,hi}
Rep(s, P, class, lo, hi) ==
  UNION {{j \in (i + lo)..Min(i + hi, Len(s)) :
            \A k \in (i + 1)..j : InClass(Ch(s, k), class)} : i \in P}

\* [class]+
Plus(s, P, class) == Rep(s, P, class, 1, Len(s))

\* [class]*
Star(s, P, class) == Rep(s, P, class, 0, Len(s))

\* ((?<RankItem>[pnbrqkPNBRQK1-8]{1,8})\/?)
RankGroup(s, P) ==
  LET item == Rep(s, P, RankItemClass, 1, 8)
  IN  item \cup Lit(s, item, "/")

\* (...){n}
RECURSIVE PiecePlacement(_, _, _)
PiecePlacement(s, P, n) ==
  IF n = 0 THEN P ELSE PiecePlacement(s, RankGroup(s, P), n - 1)

\* (?<SideToMove>b|w)
SideToMove(s, P) == Lit(s, P, "b") \cup Lit(s, P, "w")

\* (?<Castling>-|K?Q?k?q)
Castling(s, P) ==
  Lit(s, P, "-") \cup Lit(s, Opt(s, Opt(s, Opt(s, P, "K"), "Q"), "k"), "q")

\* (?<EnPassant>-|[a-h][3-6])
EnPassant(s, P) ==
  Lit(s, P, "-") \cup One(s, One(s, P, FileClass), EnPassantRankClass)

FEN_REGEX(s) ==
  LET p1 == PiecePlacement(s, {0}, 8)
      p2 == SideToMove(s, Plus(s, p1, SpaceClass))
      p3 == Castling(s, Plus(s, p2, SpaceClass))
      p4 == EnPassant(s, Plus(s, p3, SpaceClass))
      p5 == Plus(s, Plus(s, p4, SpaceClass), DigitClass)
      p6 == Plus(s, Plus(s, p5, SpaceClass), DigitClass)
  IN  Len(s) \in Star(s, p6, SpaceClass)

MOVE_REGEX(s) ==
  LET p1 == One(s, One(s, {0}, FileClass), RankClass)
      p2 == One(s, One(s, p1, FileClass), RankClass)
  IN  Len(s) \in Opt(s, p2, PromotionClass)

is_valid_move(move_str) == MOVE_REGEX(move_str)

is_valid_fen(fen) == FEN_REGEX(fen)

----------------------------------------------------------------------------
(* try_parse_position_cmd                                                  *)

START_FEN == "rnbqkbnr/pppppppp/8/8/8/8/PPPPPPPP/RNBQKBNR w KQkq - 0 1"

\* cmd.tokens[1..].iter().take_while(|t| **t != "moves"): the tokens of
\* toks from index `from` (1-based) up to the first "moves"
RECURSIVE TakeWhileNotMoves(_, _)
TakeWhileNotMoves(toks, from) ==
  IF from > Len(toks) \/ toks[from] = "moves" THEN <<>>
  ELSE <<toks[from]>> \o TakeWhileNotMoves(toks, from + 1)

\* mutant: the take_while is dropped, every token after the first is taken
fen_tokens_NoTakeWhile(toks) == SubSeq(toks, 2, Len(toks))

fen_tokens(toks) == TakeWhileNotMoves(toks, 2)

\* mutant: "startpos" is not replaced by the initial position
FenCandidate_NoStartpos(toks) ==
  LET ft == fen_tokens(toks)
  IN  IF Len(ft) = 1 THEN ft[1] ELSE Join(Tail(ft))

\* the `fen` local after the match on fen_tokens.len() and the startpos
\* substitution; only read when the length is 1 or 7
FenCandidate(toks) ==
  LET ft == fen_tokens(toks)
      fen == IF Len(ft) = 1 THEN ft[1] ELSE Join(Tail(ft))
  IN  IF fen = "startpos" THEN START_FEN ELSE fen

\* the `moves` local: cmd.tokens[offset..]
MovesSegment(toks) ==
  LET offset == 1 + Len(fen_tokens(toks))
  IN  IF Len(toks) > offset THEN SubSeq(toks, offset + 1, Len(toks)) ELSE <<>>

\* mutant: the "moves" keyword is kept in the list
fen_moves_KeepKeyword(toks) == MovesSegment(toks)

\* the `fen_moves` local: moves[1..]
fen_moves(toks) ==
  LET moves == MovesSegment(toks)
  IN  IF Len(moves) > 0 THEN Tail(moves) ELSE <<>>

\* mutant: a single-token FEN segment is accepted without the grammar check
try_parse_position_cmd_SkipSingle(toks) ==
  IF Len(toks) < 2 THEN InvalidLength(2, USIZE_MAX, Len(toks))
  ELSE IF Len(fen_tokens(toks)) \notin {1, 7}
    THEN InvalidLength(7, 7, Len(fen_tokens(toks)))
  ELSE IF Len(fen_tokens(toks)) = 7 /\ ~is_valid_fen(FenCandidate(toks))
    THEN UnknownToken(FenCandidate(toks))
  ELSE IF \E i \in 1..Len(fen_moves(toks)) : ~is_valid_move(fen_moves(toks)[i])
    THEN UnknownToken(fen_moves(toks)[1])
  ELSE PositionCommandPayload(FenCandidate(toks), fen_moves(toks))

try_parse_position_cmd(toks) ==
  IF Len(toks) < 2 THEN InvalidLength(2, USIZE_MAX, Len(toks))
  ELSE IF Len(fen_tokens(toks)) \notin {1, 7}
    THEN InvalidLength(7, 7, Len(fen_tokens(toks)))
  ELSE IF ~is_valid_fen(FenCandidate(toks))
    THEN UnknownToken(FenCandidate(toks))
  ELSE IF \E i \in 1..Len(fen_moves(toks)) : ~is_valid_move(fen_moves(toks)[i])
    THEN UnknownToken(fen_moves(toks)[1])
  ELSE PositionCommandPayload(FenCandidate(toks), fen_moves(toks))

----------------------------------------------------------------------------
(* token.parse::<u64>()                                                    *)

U64_MAX == "18446744073709551615"

DigitVal(c) == CHOOSE d \in 0..9 : Ch(DigitClass, d + 1) = c

IsDigits(s) == Len(s) > 0 /\ \A k \in 1..Len(s) : InClass(Ch(s, k), DigitClass)

RECURSIVE StripZeros(_)
StripZeros(s) ==
  IF Len(s) > 1 /\ Ch(s, 1) = "0" THEN StripZeros(SubSeq(s, 2, Len(s))) ELSE s

\* a <= b for canonical decimal strings
RECURSIVE LexLeq(_, _, _)
LexLeq(a, b, k) ==
  IF k > Len(a) THEN TRUE
  ELSE IF DigitVal(Ch(a, k)) < DigitVal(Ch(b, k)) THEN TRUE
  ELSE IF DigitVal(Ch(a, k)) > DigitVal(Ch(b, k)) THEN FALSE
  ELSE LexLeq(a, b, k + 1)

DecLeq(a, b) == Len(a) < Len(b) \/ (Len(a) = Len(b) /\ LexLeq(a, b, 1))

\* mutant: the token is parsed as a signed integer, a leading '-' is accepted
ParseU64_Signed(tok) ==
  LET digits == IF Len(tok) > 1 /\ Ch(tok, 1) \in {"+", "-"}
                  THEN SubSeq(tok, 2, Len(tok)) ELSE tok
  IN  IF IsDigits(digits) /\ DecLeq(StripZeros(digits), U64_MAX)
      THEN [ok |-> TRUE, value |-> StripZeros(digits)]
      ELSE [ok |-> FALSE]

\* u64::from_str: one optional leading '+', then one or more ASCII digits
\* whose value does not exceed u64::MAX
ParseU64(tok) ==
  LET digits == IF Len(tok) > 1 /\ Ch(tok, 1) = "+" THEN SubSeq(tok, 2, Len(tok)) ELSE tok
  IN  IF IsDigits(digits) /\ DecLeq(StripZeros(digits), U64_MAX)
      THEN [ok |-> TRUE, value |-> StripZeros(digits)]
      ELSE [ok |-> FALSE]

----------------------------------------------------------------------------
(* The commands the parsers are called with: token sequences as            *)
(* Command::new produces them (no token is empty or holds whitespace).     *)

MaxMoves == 2
MaxGoArgs == 4

SeqsUpTo(S, n) == UNION {[1..k -> S] : k \in 0..n}

Heads == {"position", "go"}

Placements ==
  {"8/8/8/8/8/8/8/8",
   "rnbqkb1r/pppppppp/5n2/8/2PP4/8/PP2PPPP/RNBQKBNR",
   "pppppppp",
   "8/8/8/8/8/8/8/8/",
   "8/8/8/8/8/8/8",
   "8/8/8/8/8/8/8/8/8",
   "ppppppppp/8/8/8/8/8/8",
   "8//8/8/8/8/8/8/8",
   "8/8/8/8/x/8/8/8"}

FenFields ==
  {<<p, "w", "-", "-", "0", "0">> : p \in Placements}
  \cup {<<"rnbqkb1r/pppppppp/5n2/8/2PP4/8/PP2PPPP/RNBQKBNR", s, "KQkq", "c3", "0", "2">> :
          s \in {"b", "x", "bw"}}
  \cup {<<"8/8/8/8/8/8/8/8", "b", c, "-", "0", "1">> : c \in {"q", "Kq", "KQ", "qk", "--"}}
  \cup {<<"8/8/8/8/8/8/8/8", "b", "-", e, "10", "1">> : e \in {"e6", "a2", "i3", "e"}}
  \cup {<<"8/8/8/8/8/8/8/8", "b", "-", "-", h, f>> : h \in {"7", "-1", "x"}, f \in {"12", "1x"}}

FenSegments ==
  {<<>>, <<"startpos">>, <<"strtpos">>, <<"fen">>, <<"8/8/8/8/8/8/8/8">>,
   <<"startpos", "mves">>, <<"fen", "invalid">>,
   <<"8/8/8/8/8/8/8/8", "w", "-", "-", "0", "0">>,
   <<"fen", "8/8/8/8/8/8/8/8", "w", "-", "-", "0", "0", "0">>}
  \cup {<<kw>> \o f : kw \in {"fen", "xyz"}, f \in FenFields}

MoveTokens == {"e2e4", "e7e8q", "bad", "a1a2x"}

MoveTails == {<<>>} \cup {<<"moves">> \o ms : ms \in SeqsUpTo(MoveTokens, MaxMoves)}

ShortTails == {<<>>, <<"moves">>, <<"moves", "e2e4">>, <<"moves", "bad">>}

MovedSegments ==
  {<<"startpos">>, <<"strtpos">>,
   <<"fen", "rnbqkb1r/pppppppp/5n2/8/2PP4/8/PP2PPPP/RNBQKBNR", "b", "KQkq", "c3", "0", "2">>,
   <<"fen", "8/8/8/8/8/8/8/8", "b", "KQ", "-", "0", "1">>}

PositionInputs ==
  {<<h>> \o f \o m : h \in Heads, f \in FenSegments, m \in ShortTails}
  \cup {<<"position">> \o f \o m : f \in MovedSegments, m \in MoveTails}

GoTokens == {"movetime", "infinite", "1000", "7", "depth"}

NumberTokens ==
  {"0", "007", "+5", "-1000", "-0", "+", "1e3", "18446744073709551615",
   "18446744073709551616", "99999999999999999999", "00018446744073709551615"}

GoInputs ==
  {<<h>> \o a : h \in Heads, a \in SeqsUpTo(GoTokens, MaxGoArgs)}
  \cup {<<"go">> \o pre \o <<"movetime", n>> \o post :
          pre \in {<<>>, <<"infinite">>, <<"infinite", "movetime", "1000">>},
          n \in NumberTokens,
          post \in {<<>>, <<"infinite">>, <<"depth">>}}

Inputs == {<<>>} \cup PositionInputs \cup GoInputs

----------------------------------------------------------------------------
(* The state machine: one call of one parser on one command.               *)

\* the MoveInfo list and the OptionMsg of a state in which no message is built
NoInfo == <<>>
NoOption == [id |-> "", option_type |-> "Button", default |-> "", min |-> 0, max |-> 0,
             var |-> <<>>]

\* a command has been built from a line; no parser has been called yet
Init ==
  /\ tokens \in Inputs
  /\ line = Join(tokens)
  /\ info = NoInfo
  /\ option = NoOption
  /\ fn = "none"
  /\ pc = "ready"
  /\ it = 0
  /\ token = 0
  /\ movetime = "0"
  /\ infinite = FALSE
  /\ result = NoResult

GoLocals == <<it, token, movetime, infinite>>

\* try_parse_position_cmd, entry to return
ParsePosition ==
  /\ pc = "ready"
  /\ fn' = "try_parse_position_cmd"
  /\ result' = try_parse_position_cmd(tokens)
  /\ pc' = "done"
  /\ UNCHANGED <<Given, GoLocals>>

\* mutant: the length check lets a bare "go" through
GoEnter_MinOne ==
  /\ pc = "ready"
  /\ fn' = "try_parse_go_cmd"
  /\ IF Len(tokens) < 1
       THEN /\ result' = InvalidLength(2, USIZE_MAX, Len(tokens))
            /\ pc' = "done"
            /\ UNCHANGED GoLocals
     ELSE IF tokens[1] # "go"
       THEN /\ result' = InvalidCommandType("go", tokens[1])
            /\ pc' = "done"
            /\ UNCHANGED GoLocals
     ELSE /\ movetime' = "0"
          /\ infinite' = FALSE
          /\ it' = 2
          /\ pc' = "go_scan"
          /\ UNCHANGED <<token, result>>
  /\ UNCHANGED Given

\* try_parse_go_cmd, entry up to the first `tokens.next()`
GoEnter ==
  /\ pc = "ready"
  /\ fn' = "try_parse_go_cmd"
  /\ IF Len(tokens) < 2
       THEN /\ result' = InvalidLength(2, USIZE_MAX, Len(tokens))
            /\ pc' = "done"
            /\ UNCHANGED GoLocals
     ELSE IF tokens[1] # "go"
       THEN /\ result' = InvalidCommandType("go", tokens[1])
            /\ pc' = "done"
            /\ UNCHANGED GoLocals
     ELSE /\ movetime' = "0"
          /\ infinite' = FALSE
          /\ it' = 2
          /\ pc' = "go_scan"
          /\ UNCHANGED <<token, result>>
  /\ UNCHANGED Given

GoMovetime_PeekKeyword ==
  /\ pc = "go_scan"
  /\ it <= Len(tokens)
  /\ tokens[it] = "movetime"
  /\ token' = it
  /\ IF it + 1 <= Len(tokens) /\ tokens[it + 1] \notin {"movetime", "infinite"}
       THEN /\ it' = it + 2
            /\ IF ParseU64(tokens[it + 1]).ok
                 THEN /\ movetime' = ParseU64(tokens[it + 1]).value
                      /\ UNCHANGED <<pc, result>>
                 ELSE /\ result' = UnknownToken(tokens[it + 1])
                      /\ pc' = "done"
                      /\ UNCHANGED movetime
       ELSE /\ it' = it + 1
            /\ UNCHANGED <<pc, result, movetime>>
  /\ UNCHANGED <<Given, fn, infinite>>

\* one turn of the loop, arm "movetime"
GoMovetime ==
  /\ pc = "go_scan"
  /\ it <= Len(tokens)
  /\ tokens[it] = "movetime"
  /\ token' = it
  /\ IF it + 1 <= Len(tokens)
       THEN /\ it' = it + 2
            /\ IF ParseU64(tokens[it + 1]).ok
                 THEN /\ movetime' = ParseU64(tokens[it + 1]).value
                      /\ UNCHANGED <<pc, result>>
                 ELSE /\ result' = UnknownToken(tokens[it + 1])
                      /\ pc' = "done"
                      /\ UNCHANGED movetime
       ELSE /\ it' = it + 1
            /\ result' = UnknownToken(tokens[it])
            /\ pc' = "done"
            /\ UNCHANGED movetime
  /\ UNCHANGED <<Given, fn, infinite>>

\* mutant: the flag is toggled instead of set
GoInfinite_Toggle ==
  /\ pc = "go_scan"
  /\ it <= Len(tokens)
  /\ tokens[it] = "infinite"
  /\ token' = it
  /\ it' = it + 1
  /\ infinite' = ~infinite
  /\ UNCHANGED <<Given, fn, pc, movetime, result>>

\* one turn of the loop, arm "infinite"
GoInfinite ==
  /\ pc = "go_scan"
  /\ it <= Len(tokens)
  /\ tokens[it] = "infinite"
  /\ token' = it
  /\ it' = it + 1
  /\ infinite' = TRUE
  /\ UNCHANGED <<Given, fn, pc, movetime, result>>

\* one turn of the loop, arm `_`
GoUnknown ==
  /\ pc = "go_scan"
  /\ it <= Len(tokens)
  /\ tokens[it] \notin {"movetime", "infinite"}
  /\ token' = it
  /\ it' = it + 1
  /\ result' = UnknownToken(tokens[it])
  /\ pc' = "done"
  /\ UNCHANGED <<Given, fn, movetime, infinite>>

\* the iterator is exhausted: Ok(GoCommandPayload { movetime, infinite })
GoReturn ==
  /\ pc = "go_scan"
  /\ it > Len(tokens)
  /\ result' = GoCommandPayload(movetime, infinite)
  /\ pc' = "done"
  /\ UNCHANGED <<Given, fn, GoLocals>>

Next ==
  \/ ParsePosition
  \/ GoEnter
  \/ GoMovetime
  \/ GoInfinite
  \/ GoUnknown
  \/ GoReturn

Spec == Init /\ [][Next]_vars

----------------------------------------------------------------------------
(* Properties of try_parse_position_cmd                                    *)

PositionDone == pc = "done" /\ fn = "try_parse_position_cmd"

Max(a, b) == IF a >= b THEN a ELSE b

\* The length of the FEN segment: the maximal leading run of tokens[1..]
\* (0-based) that are not "moves".
FenSegmentLength(toks) ==
  CHOOSE n \in 0..Len(toks) :
    /\ n + 1 <= Max(Len(toks), 1)
    /\ \A i \in 2..(n + 1) : toks[i] # "moves"
    /\ n + 2 > Len(toks) \/ toks[n + 2] = "moves"

\* The tokens after the first "moves" token (empty when there is none).
TokensAfterMoves(toks) == SubSeq(toks, FenSegmentLength(toks) + 3, Len(toks))

\* The parser got as far as the FEN grammar check.
ReachesFenCheck(toks) == Len(toks) >= 2 /\ FenSegmentLength(toks) \in {1, 7}

\* Eight rank groups of 1-8 characters, consecutive groups separated by '/'.
RECURSIVE SeparatedRanks(_, _, _)
SeparatedRanks(s, P, n) ==
  IF n = 0 THEN P
  ELSE SeparatedRanks(s, Rep(s, Lit(s, P, "/"), RankItemClass, 1, 8), n - 1)

\* The FEN grammar of the specification.
FenGrammar(s) ==
  LET p1 == SeparatedRanks(s, Rep(s, {0}, RankItemClass, 1, 8), 7)
      p2 == Plus(s, p1, SpaceClass)
      p3 == Plus(s, Lit(s, p2, "b") \cup Lit(s, p2, "w"), SpaceClass)
      p4 == Plus(s, Lit(s, p3, "-") \cup Lit(s, Opt(s, Opt(s, Opt(s, p3, "K"), "Q"), "k"), "q"),
                 SpaceClass)
      p5 == Plus(s, Lit(s, p4, "-") \cup One(s, One(s, p4, "abcdefgh"), "3456"), SpaceClass)
      p6 == Plus(s, Plus(s, p5, DigitClass), SpaceClass)
  IN  Len(s) \in Plus(s, p6, DigitClass)

\* The move grammar of the specification.
MoveGrammar(m) ==
  /\ Len(m) \in {4, 5}
  /\ InClass(Ch(m, 1), "abcdefgh") /\ InClass(Ch(m, 2), "12345678")
  /\ InClass(Ch(m, 3), "abcdefgh") /\ InClass(Ch(m, 4), "12345678")
  /\ Len(m) = 5 => InClass(Ch(m, 5), "rnbqRNBQ")

\* C1: a FEN candidate is accepted only if it satisfies the full FEN grammar
\* (eight rank groups separated by '/', side, castling, en passant, two
\* integers, nothing trailing); every other candidate is rejected with
\* UnknownToken{token: candidate}.
C1_FullFenGrammar ==
  (PositionDone /\ ReachesFenCheck(tokens) /\ ~FenGrammar(FenCandidate(tokens)))
    => result = UnknownToken(FenCandidate(tokens))

\* C2: when some move does not match the move grammar, the error is
\* UnknownToken carrying the first (leftmost) non-matching move.
C2_FirstNonMatchingMove ==
  (/\ PositionDone
   /\ ReachesFenCheck(tokens)
   /\ is_valid_fen(FenCandidate(tokens))
   /\ \E i \in 1..Len(TokensAfterMoves(tokens)) : ~MoveGrammar(TokensAfterMoves(tokens)[i]))
    => LET ms == TokensAfterMoves(tokens)
           first == CHOOSE i \in 1..Len(ms) :
                      ~MoveGrammar(ms[i]) /\ \A j \in 1..(i - 1) : MoveGrammar(ms[j])
       IN  result = UnknownToken(ms[first])

\* C3: a command of two or more tokens whose first token is not "position"
\* is rejected with an error and never yields a payload.
C3_RequiresPositionLiteral ==
  (PositionDone /\ Len(tokens) >= 2 /\ tokens[1] # "position") => ~result.ok

\* C4: for a command of at least two tokens, a FEN segment whose length is
\* neither 1 nor 7 fails with InvalidLength{min: 7, max: 7, got}, where got is
\* the length of the FEN segment (not of the command).
C4_FenSegmentLength ==
  (PositionDone /\ Len(tokens) >= 2 /\ FenSegmentLength(tokens) \notin {1, 7})
    => result = InvalidLength(7, 7, FenSegmentLength(tokens))

\* "position moves e2e4": the FEN segment is empty and got is 0, not 3
C4_Witness ==
  /\ PositionDone
  /\ tokens = <<"position", "moves", "e2e4">>
  /\ result = InvalidLength(7, 7, 0)

\* C5: a FEN segment "startpos" returns the initial position; a FEN segment
\* of length 7 returns its tokens 2..7 joined by single spaces, and the
\* result does not depend on the segment's first token.
C5_ReturnedFen ==
  PositionDone =>
    LET n == FenSegmentLength(tokens)
        ms == TokensAfterMoves(tokens)
    IN  /\ (/\ Len(tokens) >= 2 /\ n = 1 /\ tokens[2] = "startpos"
            /\ \A i \in 1..Len(ms) : MoveGrammar(ms[i]))
             => /\ result.ok
                /\ result.fen = "rnbqkbnr/pppppppp/8/8/8/8/PPPPPPPP/RNBQKBNR w KQkq - 0 1"
        /\ (Len(tokens) >= 2 /\ n = 7)
             => /\ result.ok =>
                     result.fen = tokens[3] \o " " \o tokens[4] \o " " \o tokens[5] \o " "
                                    \o tokens[6] \o " " \o tokens[7] \o " " \o tokens[8]
                /\ \A kw \in {"fen", "xyz", "startpos"} :
                     try_parse_position_cmd([tokens EXCEPT ![2] = kw]) = result

\* a 7-token segment whose first token is not "fen" is accepted
C5_Witness ==
  /\ PositionDone
  /\ FenSegmentLength(tokens) = 7
  /\ tokens[2] = "xyz"
  /\ result.ok
  /\ result.fen = "rnbqkb1r/pppppppp/5n2/8/2PP4/8/PP2PPPP/RNBQKBNR b KQkq c3 0 2"

\* C6: a FEN segment that is a single token other than "startpos" is always
\* rejected with UnknownToken{token: that token}.
C6_SingleTokenRejected ==
  (/\ PositionDone /\ Len(tokens) >= 2
   /\ FenSegmentLength(tokens) = 1 /\ tokens[2] # "startpos")
    => result = UnknownToken(tokens[2])

\* a single token that is a well-formed piece placement, followed by moves
C6_Witness ==
  /\ PositionDone
  /\ tokens = <<"position", "8/8/8/8/8/8/8/8", "moves", "e2e4">>
  /\ result = UnknownToken("8/8/8/8/8/8/8/8")

\* C7: on success the returned moves are the tokens after the first "moves"
\* token, in order, each matching the move grammar; with a valid FEN, an
\* absent moves segment and one holding only "moves" both succeed with an
\* empty list.
C7_ReturnedMoves ==
  PositionDone =>
    /\ result.ok =>
         /\ result.moves = TokensAfterMoves(tokens)
         /\ \A i \in 1..Len(result.moves) : MoveGrammar(result.moves[i])
    /\ (/\ ReachesFenCheck(tokens)
        /\ is_valid_fen(FenCandidate(tokens))
        /\ Len(tokens) <= FenSegmentLength(tokens) + 2)
         => result.ok /\ result.moves = <<>>

\* two moves, the second a promotion, returned in order
C7_Witness ==
  /\ PositionDone
  /\ result.ok
  /\ result.moves = <<"e2e4", "e7e8q">>

\* C20: the first violation in a fixed order is returned: fewer than two
\* tokens, then the FEN-segment length, then the FEN grammar, then the moves;
\* a command with both an invalid FEN and an invalid move reports
\* UnknownToken carrying the FEN candidate, never the move.
C20_CheckOrder ==
  PositionDone =>
    LET ms == TokensAfterMoves(tokens)
        badMove == \E i \in 1..Len(ms) : ~MoveGrammar(ms[i])
    IN  /\ Len(tokens) < 2 => result = InvalidLength(2, "18446744073709551615", Len(tokens))
        /\ (Len(tokens) >= 2 /\ FenSegmentLength(tokens) \notin {1, 7})
             => result = InvalidLength(7, 7, FenSegmentLength(tokens))
        /\ (ReachesFenCheck(tokens) /\ ~FenGrammar(FenCandidate(tokens)) /\ badMove)
             => result = UnknownToken(FenCandidate(tokens))

----------------------------------------------------------------------------
(* Properties of try_parse_go_cmd                                          *)

GoDone == pc = "done" /\ fn = "try_parse_go_cmd"

\* A follower of "movetime" that is no integer in 0..2^64-1.
NotU64(f) ==
  \/ Ch(f, 1) = "-"
  \/ IsDigits(f) /\ ~DecLeq(StripZeros(f), U64_MAX)
  \/ ~ParseU64(f).ok

\* C8: a "movetime" keyword that is the last token fails with
\* UnknownToken{"movetime"}; one whose follower does not parse as an integer
\* in 0..2^64-1 (a leading minus sign, a value above 2^64-1) fails with
\* UnknownToken carrying the follower; otherwise the follower's value is
\* stored.
C8_MovetimeArgument ==
  (fn = "try_parse_go_cmd" /\ token # 0 /\ tokens[token] = "movetime") =>
    IF token = Len(tokens)
      THEN pc = "done" /\ result = UnknownToken("movetime")
    ELSE IF NotU64(tokens[token + 1])
      THEN pc = "done" /\ result = UnknownToken(tokens[token + 1])
    ELSE movetime = ParseU64(tokens[token + 1]).value

\* the follower is 2^64
C8_Witness ==
  /\ GoDone
  /\ token = 2
  /\ tokens = <<"go", "movetime", "18446744073709551616">>
  /\ result = UnknownToken("18446744073709551616")

\* The index of the last "movetime" keyword that has a follower (0: none).
LastMovetime(toks) ==
  LET at == {i \in 2..(Len(toks) - 1) : toks[i] = "movetime"}
  IN  IF at = {} THEN 0 ELSE CHOOSE i \in at : \A j \in at : j <= i

\* C9: a go command that parses returns the value after the last "movetime"
\* keyword (0 if there is none) and infinite = TRUE iff some token is
\* "infinite"; during the scan the infinite flag never goes back to FALSE.
C9_LastMovetimeStickyInfinite ==
  /\ [](GoDone /\ result.ok =>
          /\ result.movetime =
               IF LastMovetime(tokens) = 0 THEN "0"
               ELSE ParseU64(tokens[LastMovetime(tokens) + 1]).value
          /\ result.infinite = (\E i \in 2..Len(tokens) : tokens[i] = "infinite"))
  /\ [][infinite => infinite']_vars

\* infinite first, then two movetime keywords: the second value is returned
C9_Witness ==
  /\ GoDone
  /\ tokens = <<"go", "infinite", "movetime", "1000", "movetime", "0">>
  /\ result = GoCommandPayload("0", TRUE)

\* The index of the first token in keyword position that is neither
\* "movetime" nor "infinite", scanning from index i; 0 when the scan ends or
\* fails at a "movetime" before meeting one.
RECURSIVE FirstUnknownKeyword(_, _)
FirstUnknownKeyword(toks, i) ==
  IF i > Len(toks) THEN 0
  ELSE IF toks[i] = "infinite" THEN FirstUnknownKeyword(toks, i + 1)
  ELSE IF toks[i] = "movetime"
    THEN IF i + 1 <= Len(toks) /\ ~NotU64(toks[i + 1])
           THEN FirstUnknownKeyword(toks, i + 2)
           ELSE 0
  ELSE i

\* C10: fewer than two tokens fail with InvalidLength{2, usize::MAX, n}; two
\* or more tokens whose first is not "go" fail with
\* InvalidCommandType{"go", tokens[0]}; the first token in keyword position
\* that is neither "movetime" nor "infinite" fails with UnknownToken carrying
\* it.
C10_GoErrors ==
  GoDone =>
    /\ Len(tokens) < 2 => result = InvalidLength(2, "18446744073709551615", Len(tokens))
    /\ (Len(tokens) >= 2 /\ tokens[1] # "go") => result = InvalidCommandType("go", tokens[1])
    /\ (Len(tokens) >= 2 /\ tokens[1] = "go" /\ FirstUnknownKeyword(tokens, 2) # 0)
         => result = UnknownToken(tokens[FirstUnknownKeyword(tokens, 2)])

\* the bare command
C10_Witness ==
  /\ GoDone
  /\ tokens = <<"go">>
  /\ result = InvalidLength(2, "18446744073709551615", 1)

----------------------------------------------------------------------------
(* Command::new and Command::command_type                                  *)

\* char::is_whitespace on the ASCII characters: space, \t, \n, \r, \f and
\* the vertical tab U+000B (written raw, as the last character of the string)
WhiteSpace == " \t\n\r\f"

\* str::split on the characters of `class`: the fragments between
\* consecutive separators, the empty ones included (`cur` is the fragment
\* being read, `i` the next character)
RECURSIVE Split(_, _, _, _)
Split(s, i, cur, class) ==
  IF i > Len(s) THEN <<cur>>
  ELSE IF InClass(Ch(s, i), class) THEN <<cur>> \o Split(s, i + 1, "", class)
  ELSE Split(s, i + 1, cur \o Ch(s, i), class)

NonEmpty(p) == Len(p) > 0

split_whitespace_SpacesOnly(s) == SelectSeq(Split(s, 1, "", " "), NonEmpty)

\* str::split_whitespace: split on whitespace, empty fragments dropped
split_whitespace(s) == SelectSeq(Split(s, 1, "", WhiteSpace), NonEmpty)

\* Command::new: line.split_whitespace().filter(|p| p.len() > 0).collect()
Command_new(l) == SelectSeq(split_whitespace(l), NonEmpty)

None == [some |-> FALSE]
Some(v) == [some |-> TRUE, value |-> v]

\* the literal of each CommandType, in the order of the match arms
CommandLiterals ==
  << <<"uci", "Uci">>, <<"debug", "Debug">>, <<"isready", "IsReady">>,
     <<"setoption", "SetOption">>, <<"ucinewgame", "UciNewGame">>,
     <<"position", "Position">>, <<"go", "Go">>, <<"stop", "Stop">>,
     <<"quit", "Quit">> >>

command_type_WholeCommand(toks) ==
  IF Len(toks) # 1 THEN None
  ELSE IF \E k \in 1..Len(CommandLiterals) : CommandLiterals[k][1] = toks[1]
       THEN Some(CommandLiterals[CHOOSE k \in 1..Len(CommandLiterals) :
                                   CommandLiterals[k][1] = toks[1]][2])
       ELSE None

\* Command::command_type
command_type(toks) ==
  IF Len(toks) = 0 THEN None
  ELSE IF \E k \in 1..Len(CommandLiterals) : CommandLiterals[k][1] = toks[1]
       THEN Some(CommandLiterals[CHOOSE k \in 1..Len(CommandLiterals) :
                                   CommandLiterals[k][1] = toks[1]][2])
       ELSE None

----------------------------------------------------------------------------
(* The parsers of the commands without payload, and of debug               *)

Unit == [ok |-> TRUE]
OkBool(b) == [ok |-> TRUE, value |-> b]

try_single_token_cmd_TypeFirst(toks, val) ==
  IF Len(toks) > 0 /\ toks[1] # val THEN InvalidCommandType(val, toks[1])
  ELSE IF Len(toks) # 1 THEN InvalidLength(1, 1, Len(toks))
  ELSE Unit

\* single_token.rs: try_single_token_cmd(cmd, val)
try_single_token_cmd(toks, val) ==
  IF Len(toks) # 1 THEN InvalidLength(1, 1, Len(toks))
  ELSE IF toks[1] # val THEN InvalidCommandType(val, toks[1])
  ELSE Unit

\* parse_uci.rs keeps its own copy of the same checks
try_parse_uci_cmd(toks) ==
  IF Len(toks) # 1 THEN InvalidLength(1, 1, Len(toks))
  ELSE IF toks[1] # "uci" THEN InvalidCommandType("uci", toks[1])
  ELSE Unit

try_parse_is_ready_cmd(toks) == try_single_token_cmd(toks, "isready")
try_parse_uci_new_game_cmd(toks) == try_single_token_cmd(toks, "ucinewgame")
try_parse_stop_cmd(toks) == try_single_token_cmd(toks, "stop")
try_parse_quit_cmd(toks) == try_single_token_cmd(toks, "quit")

try_parse_debug_cmd_AnyCase(toks) ==
  IF Len(toks) # 2 THEN InvalidLength(2, 2, Len(toks))
  ELSE IF toks[1] # "debug" THEN InvalidCommandType("debug", toks[1])
  ELSE IF toks[2] \in {"on", "ON", "On"} THEN OkBool(TRUE)
  ELSE IF toks[2] \in {"off", "OFF", "Off"} THEN OkBool(FALSE)
  ELSE UnknownToken(toks[2])

\* parse_debug.rs: try_parse_debug_cmd
try_parse_debug_cmd(toks) ==
  IF Len(toks) # 2 THEN InvalidLength(2, 2, Len(toks))
  ELSE IF toks[1] # "debug" THEN InvalidCommandType("debug", toks[1])
  ELSE IF toks[2] = "on" THEN OkBool(TRUE)
  ELSE IF toks[2] = "off" THEN OkBool(FALSE)
  ELSE UnknownToken(toks[2])

----------------------------------------------------------------------------
(* try_parse_option_cmd                                                    *)

OptionCommandPayload(name, value) == [ok |-> TRUE, name |-> name, value |-> value]

RECURSIVE OptionScan_FirstWins(_, _, _, _)
OptionScan_FirstWins(toks, i, name, value) ==
  IF i > Len(toks) THEN OptionCommandPayload(name, value)
  ELSE IF toks[i] = "name"
       THEN IF i + 1 <= Len(toks)
            THEN OptionScan_FirstWins(toks, i + 2, IF name = "" THEN toks[i + 1] ELSE name, value)
            ELSE UnknownToken(toks[i])
  ELSE IF toks[i] = "value"
       THEN IF i + 1 <= Len(toks)
            THEN OptionScan_FirstWins(toks, i + 2, name, IF value = "" THEN toks[i + 1] ELSE value)
            ELSE UnknownToken(toks[i])
  ELSE UnknownToken(toks[i])

\* the `while let Some(token) = iter.next()` loop: `i` is the index in tokens
\* of the iterator's next item, `name` and `value` are the locals
RECURSIVE OptionScan(_, _, _, _)
OptionScan(toks, i, name, value) ==
  IF i > Len(toks) THEN OptionCommandPayload(name, value)
  ELSE IF toks[i] = "name"
       THEN IF i + 1 <= Len(toks)
            THEN OptionScan(toks, i + 2, toks[i + 1], value)
            ELSE UnknownToken(toks[i])
  ELSE IF toks[i] = "value"
       THEN IF i + 1 <= Len(toks)
            THEN OptionScan(toks, i + 2, name, toks[i + 1])
            ELSE UnknownToken(toks[i])
  ELSE UnknownToken(toks[i])

try_parse_option_cmd_MinTwo(toks) ==
  IF Len(toks) < 2 THEN InvalidLength(3, USIZE_MAX, Len(toks))
  ELSE IF toks[1] # "setoption" THEN InvalidCommandType("setoption", toks[1])
  ELSE OptionScan(toks, 2, "", "")

\* parse_option.rs: try_parse_option_cmd
try_parse_option_cmd(toks) ==
  IF Len(toks) < 3 THEN InvalidLength(3, USIZE_MAX, Len(toks))
  ELSE IF toks[1] # "setoption" THEN InvalidCommandType("setoption", toks[1])
  ELSE OptionScan(toks, 2, "", "")

----------------------------------------------------------------------------
(* Input lines of the tokenizer, the classifier and the parsers above      *)

MaxLineLen == 4
MaxOptionArgs == 4
MaxFollowers == 2

LineAlphabet == {"a", "b", " ", "\n"}

\* every string over LineAlphabet of length at most n
RECURSIVE LinesUpTo(_)
LinesUpTo(n) ==
  IF n = 0 THEN {""}
  ELSE LET shorter == LinesUpTo(n - 1)
       IN  shorter \cup {l \o c : l \in shorter, c \in LineAlphabet}

\* lines with every ASCII whitespace character; in the last three the
\* separator is the vertical tab U+000B
SpecialLines ==
  {"  a   b\n\n", "\ta\r\nb\f", " \t \n", "uci\n", "  debug   on ", "a\tb c\nd",
   "ab", "uci", "  a  b\n"}

OptionTokens == {"name", "value", "Hash", "128"}

OptionInputs ==
  {<<h>> \o args : h \in {"setoption", "option"},
                   args \in SeqsUpTo(OptionTokens, MaxOptionArgs)}

DebugInputs ==
  {<<h>> \o args : h \in {"debug", "gubed"},
                   args \in SeqsUpTo({"on", "off", "ON", "maybe"}, MaxFollowers)}

FirstTokens ==
  {"uci", "debug", "isready", "setoption", "ucinewgame", "position", "go",
   "stop", "quit", "UCI", "Quit", "unknown", "ucii"}

LiteralInputs ==
  {<<h>> \o args : h \in FirstTokens, args \in SeqsUpTo({"x", "uci"}, MaxFollowers)}

CmdLines ==
  LinesUpTo(MaxLineLen) \cup SpecialLines
    \cup {Join(toks) : toks \in OptionInputs \cup DebugInputs \cup LiteralInputs}

----------------------------------------------------------------------------
(* The tokenizer, the classifier and the parsers as a state machine: a     *)
(* line is tokenized, then one function is called on the command.          *)

InitCmd ==
  /\ line \in CmdLines
  /\ tokens = <<>>
  /\ info = NoInfo
  /\ option = NoOption
  /\ fn = "none"
  /\ pc = "line"
  /\ it = 0 /\ token = 0 /\ movetime = "0" /\ infinite = FALSE
  /\ result = NoResult

\* Command::new(line)
Tokenize ==
  /\ pc = "line"
  /\ tokens' = Command_new(line)
  /\ pc' = "ready"
  /\ UNCHANGED <<line, info, option, fn, GoLocals, result>>

\* a call of `f` on the command, returning `r`
Call(f, r) ==
  /\ pc = "ready"
  /\ fn' = f
  /\ result' = r
  /\ pc' = "done"
  /\ UNCHANGED <<Given, GoLocals>>

Classify == Call("command_type", command_type(tokens))

ParseUci == Call("try_parse_uci_cmd", try_parse_uci_cmd(tokens))

ParseIsReady == Call("try_parse_is_ready_cmd", try_parse_is_ready_cmd(tokens))

ParseNewGame == Call("try_parse_uci_new_game_cmd", try_parse_uci_new_game_cmd(tokens))

ParseStop == Call("try_parse_stop_cmd", try_parse_stop_cmd(tokens))

ParseQuit == Call("try_parse_quit_cmd", try_parse_quit_cmd(tokens))

ParseDebug == Call("try_parse_debug_cmd", try_parse_debug_cmd(tokens))

ParseOption == Call("try_parse_option_cmd", try_parse_option_cmd(tokens))

NextCmd ==
  \/ Tokenize
  \/ Classify
  \/ ParseUci
  \/ ParseIsReady
  \/ ParseNewGame
  \/ ParseStop
  \/ ParseQuit
  \/ ParseDebug
  \/ ParseOption

SpecCmd == InitCmd /\ [][NextCmd]_vars

----------------------------------------------------------------------------
(* Properties of Command::new and Command::command_type (SpecCmd)          *)

IsWhiteSpace(l, i) == InClass(Ch(l, i), WhiteSpace)

\* the positions where a maximal run of non-whitespace characters starts
RunStarts(l) ==
  {i \in 1..Len(l) : ~IsWhiteSpace(l, i) /\ (i = 1 \/ IsWhiteSpace(l, i - 1))}

\* the last position of the run that starts at i
RunEnd(l, i) ==
  CHOOSE j \in i..Len(l) :
    /\ \A k \in i..j : ~IsWhiteSpace(l, k)
    /\ j = Len(l) \/ IsWhiteSpace(l, j + 1)

NthStart(starts, n) ==
  CHOOSE i \in starts : Cardinality({j \in starts : j < i}) = n - 1

MaximalRuns(l) ==
  LET starts == RunStarts(l)
  IN  [n \in 1..Cardinality(starts) |->
         LET i == NthStart(starts, n) IN SubSeq(l, i, RunEnd(l, i))]

\* C15: Command::new is defined on every line and returns exactly the maximal
\* runs of non-whitespace characters of the line, in order: no token is empty
\* or contains whitespace, and a line without a non-whitespace character
\* yields the empty token sequence.
C15_TokensAreMaximalRuns ==
  /\ pc = "line" => ENABLED Tokenize
  /\ pc # "line" =>
       /\ tokens = MaximalRuns(line)
       /\ \A n \in 1..Len(tokens) :
            /\ Len(tokens[n]) > 0
            /\ \A k \in 1..Len(tokens[n]) : ~IsWhiteSpace(tokens[n], k)
       /\ (\A i \in 1..Len(line) : IsWhiteSpace(line, i)) => tokens = <<>>

C15_Witness ==
  /\ pc = "ready"
  /\ line = "  a   b\n\n"
  /\ tokens = <<"a", "b">>

CmdDone(f) == pc = "done" /\ fn = f

\* C16: command_type depends only on the first token: Some(type) iff the
\* first token is exactly one of the nine literals, whatever follows; None
\* for an empty command or any other first token; never an error.
C16_TypeFromFirstToken ==
  CmdDone("command_type") =>
    LET first == IF Len(tokens) = 0 THEN "" ELSE tokens[1]
    IN  /\ result \in {None} \cup {Some(t) : t \in {"Uci", "Debug", "IsReady", "SetOption",
                                   "UciNewGame", "Position", "Go", "Stop", "Quit"}}
        /\ first = "uci" <=> result = Some("Uci")
        /\ first = "debug" <=> result = Some("Debug")
        /\ first = "isready" <=> result = Some("IsReady")
        /\ first = "setoption" <=> result = Some("SetOption")
        /\ first = "ucinewgame" <=> result = Some("UciNewGame")
        /\ first = "position" <=> result = Some("Position")
        /\ first = "go" <=> result = Some("Go")
        /\ first = "stop" <=> result = Some("Stop")
        /\ first = "quit" <=> result = Some("Quit")
        /\ (Len(tokens) = 0 \/ first \notin {"uci", "debug", "isready", "setoption",
               "ucinewgame", "position", "go", "stop", "quit"}) <=> result = None

C16_Witness ==
  /\ CmdDone("command_type")
  /\ tokens = <<"uci", "x", "uci">>
  /\ result = Some("Uci")

----------------------------------------------------------------------------
(* Properties of the parsers of SpecCmd                                    *)

\* the parsers of the commands without payload, with their literals
SingleLiteralParsers ==
  { <<"try_parse_uci_cmd", "uci">>, <<"try_parse_is_ready_cmd", "isready">>,
    <<"try_parse_uci_new_game_cmd", "ucinewgame">>, <<"try_parse_stop_cmd", "stop">>,
    <<"try_parse_quit_cmd", "quit">> }

\* C13: each single-literal parser with literal L returns InvalidLength{1,1,n}
\* for every command of n != 1 tokens (n = 0 and a wrong first token
\* included), InvalidCommandType{L, tokens[0]} for one token other than L,
\* and Ok(()) exactly for [L].
C13_SingleLiteralParsers ==
  \A p \in SingleLiteralParsers :
    CmdDone(p[1]) =>
      LET L == p[2]
          n == Len(tokens)
      IN  /\ n # 1 => result = InvalidLength(1, 1, n)
          /\ (n = 1 /\ tokens[1] # L) => result = InvalidCommandType(L, tokens[1])
          /\ result = Unit <=> tokens = <<L>>

C13_Witness ==
  /\ CmdDone("try_parse_quit_cmd")
  /\ tokens = <<"uci", "x">>
  /\ result = InvalidLength(1, 1, 2)

\* C14: try_parse_debug_cmd returns InvalidLength{2,2,n} for n != 2 tokens,
\* InvalidCommandType{"debug", tokens[0]} for two tokens not starting with
\* "debug", Ok(true) for [debug, on], Ok(false) for [debug, off] and
\* UnknownToken{tokens[1]} for any other second token, case-sensitively.
C14_DebugParser ==
  CmdDone("try_parse_debug_cmd") =>
    LET n == Len(tokens)
    IN  /\ n # 2 => result = InvalidLength(2, 2, n)
        /\ (n = 2 /\ tokens[1] # "debug") => result = InvalidCommandType("debug", tokens[1])
        /\ tokens = <<"debug", "on">> => result = OkBool(TRUE)
        /\ tokens = <<"debug", "off">> => result = OkBool(FALSE)
        /\ (n = 2 /\ tokens[1] = "debug" /\ tokens[2] \notin {"on", "off"})
             => result = UnknownToken(tokens[2])

C14_Witness ==
  /\ CmdDone("try_parse_debug_cmd")
  /\ tokens = <<"debug", "ON">>
  /\ result = UnknownToken("ON")

\* In a stream read as (keyword, argument) pairs after the first token the
\* keywords stand at the even positions; a keyword is bad when it is neither
\* "name" nor "value" or when it is the last token.
BadKeywords(toks) ==
  {k \in 2..Len(toks) :
     k % 2 = 0 /\ (toks[k] \notin {"name", "value"} \/ k = Len(toks))}

Least(S) == CHOOSE k \in S : \A j \in S : k <= j
Greatest(S) == CHOOSE k \in S : \A j \in S : j <= k

\* C11: try_parse_option_cmd fails with InvalidLength{3, usize::MAX, n} for
\* n < 3 tokens, with InvalidCommandType{"setoption", tokens[0]} for n >= 3
\* and another first token, and otherwise reads tokens[1..] as (keyword,
\* argument) pairs: the first keyword that is not "name"/"value" or that is
\* the last token fails with UnknownToken carrying it; the parse succeeds iff
\* the whole stream is consumed as such pairs.
C11_OptionErrors ==
  CmdDone("try_parse_option_cmd") =>
    LET n == Len(tokens)
        bad == BadKeywords(tokens)
    IN  /\ n < 3 => result = InvalidLength(3, "18446744073709551615", n)
        /\ (n >= 3 /\ tokens[1] # "setoption")
             => result = InvalidCommandType("setoption", tokens[1])
        /\ (n >= 3 /\ tokens[1] = "setoption" /\ bad # {})
             => result = UnknownToken(tokens[Least(bad)])
        /\ result.ok <=> (n >= 3 /\ tokens[1] = "setoption" /\ bad = {})

C11_Witness ==
  /\ CmdDone("try_parse_option_cmd")
  /\ tokens = <<"setoption", "name", "Hash", "value">>
  /\ result = UnknownToken("value")

KeywordPositions(toks, kw) == {k \in 2..Len(toks) : k % 2 = 0 /\ toks[k] = kw}

\* C12: for every setoption command that parses successfully the returned
\* name is the argument of the last "name" keyword and the returned value the
\* argument of the last "value" keyword; without a "value" keyword the value
\* is the empty string and the parse still succeeds.
C12_LastKeywordWins ==
  (CmdDone("try_parse_option_cmd") /\ result.ok) =>
    LET names == KeywordPositions(tokens, "name")
        values == KeywordPositions(tokens, "value")
    IN  /\ names # {} => result.name = tokens[Greatest(names) + 1]
        /\ values # {} => result.value = tokens[Greatest(values) + 1]
        /\ values = {} => result.value = ""

C12_Witness ==
  /\ CmdDone("try_parse_option_cmd")
  /\ tokens = <<"setoption", "name", "Hash", "name", "128">>
  /\ result = OptionCommandPayload("128", "")

----------------------------------------------------------------------------
(* build_info_msg.  A MoveInfo is a record with its variant in `tag`.      *)

Cp(n) == [kind |-> "Cp", v |-> n]
Mate(n) == [kind |-> "Mate", v |-> n]

Depth(n) == [tag |-> "Depth", v |-> n]
SelDepth(n) == [tag |-> "SelDepth", v |-> n]
Time(n) == [tag |-> "Time", v |-> n]
Nodes(n) == [tag |-> "Nodes", v |-> n]
Pv(moves) == [tag |-> "Pv", moves |-> moves]
Score(score, lb, ub) ==
  [tag |-> "Score", score |-> score, lower_bound |-> lb, upper_bound |-> ub]
CurrMove(move) == [tag |-> "CurrMove", move |-> move]
CurrMoveNumber(n) == [tag |-> "CurrMoveNumber", v |-> n]
HashFull(n) == [tag |-> "HashFull", v |-> n]
Nps(n) == [tag |-> "Nps", v |-> n]
TbHits(n) == [tag |-> "TbHits", v |-> n]
Cpuload(n) == [tag |-> "Cpuload", v |-> n]
Custom(text) == [tag |-> "Custom", text |-> text]
Refutation(moves) == [tag |-> "Refutation", moves |-> moves]
MultiPv(n) == [tag |-> "MultiPv", v |-> n]
CurrLine(task, moves) == [tag |-> "CurrLine", task |-> task, line |-> moves]

\* Display of an integer ("{}" and to_string): decimal digits, '-' first
\* for a negative number
RECURSIVE DisplayUnsigned(_)
DisplayUnsigned(n) ==
  IF n < 10 THEN Ch(DigitClass, n + 1)
  ELSE DisplayUnsigned(n \div 10) \o Ch(DigitClass, (n % 10) + 1)

Display(n) == IF n < 0 THEN "-" \o DisplayUnsigned(-n) ELSE DisplayUnsigned(n)

fmt_score_UpperFirst(score, lb, ub) ==
  (IF score.kind = "Cp" THEN " score cp " \o Display(score.v)
                        ELSE " score mate " \o Display(score.v))
    \o (IF ub THEN " upperbound" ELSE "")
    \o (IF lb THEN " lowerbound" ELSE "")

\* the closure fmt_score of build_info_msg
fmt_score(score, lb, ub) ==
  (IF score.kind = "Cp" THEN " score cp " \o Display(score.v)
                        ELSE " score mate " \o Display(score.v))
    \o (IF lb THEN " lowerbound" ELSE "")
    \o (IF ub THEN " upperbound" ELSE "")

\* what one arm of the match pushes on msg (the Custom arm pushes nothing)
Pushed(part) ==
  CASE part.tag = "Depth" -> " depth " \o Display(part.v)
    [] part.tag = "SelDepth" -> " seldepth " \o Display(part.v)
    [] part.tag = "Time" -> " time " \o Display(part.v)
    [] part.tag = "Nodes" -> " nodes " \o Display(part.v)
    [] part.tag = "Pv" -> " pv " \o Join(part.moves)
    [] part.tag = "MultiPv" -> " multipv " \o Display(part.v)
    [] part.tag = "HashFull" -> " hashfull " \o Display(part.v)
    [] part.tag = "Nps" -> " nps " \o Display(part.v)
    [] part.tag = "TbHits" -> " tbhits " \o Display(part.v)
    [] part.tag = "Cpuload" -> " cpuload " \o Display(part.v)
    [] part.tag = "Custom" -> ""
    [] part.tag = "CurrMove" -> " currmove " \o part.move
    [] part.tag = "Score" -> fmt_score(part.score, part.lower_bound, part.upper_bound)
    [] part.tag = "CurrMoveNumber" -> " currmovenumber " \o Display(part.v)
    [] part.tag = "Refutation" -> " refutation " \o Join(part.moves)
    [] part.tag = "CurrLine" -> " currline " \o Display(part.task) \o " " \o Join(part.line)

RECURSIVE InfoLoop_CustomInPlace(_, _, _, _)
InfoLoop_CustomInPlace(parts, i, msg, string_info) ==
  IF i > Len(parts) THEN <<msg, string_info>>
  ELSE IF parts[i].tag = "Custom"
       THEN InfoLoop_CustomInPlace(parts, i + 1, msg \o " string " \o parts[i].text, string_info)
       ELSE InfoLoop_CustomInPlace(parts, i + 1, msg \o Pushed(parts[i]), string_info)

RECURSIVE InfoLoop_FirstCustom(_, _, _, _)
InfoLoop_FirstCustom(parts, i, msg, string_info) ==
  IF i > Len(parts) THEN <<msg, string_info>>
  ELSE IF parts[i].tag = "Custom"
       THEN InfoLoop_FirstCustom(parts, i + 1, msg,
                                 IF string_info.some THEN string_info
                                 ELSE Some(parts[i].text))
       ELSE InfoLoop_FirstCustom(parts, i + 1, msg \o Pushed(parts[i]), string_info)

\* the `for part in info` loop: `msg` and `string_info` are the locals, the
\* pair of their final values is returned
RECURSIVE InfoLoop(_, _, _, _)
InfoLoop(parts, i, msg, string_info) ==
  IF i > Len(parts) THEN <<msg, string_info>>
  ELSE IF parts[i].tag = "Custom"
       THEN InfoLoop(parts, i + 1, msg, Some(parts[i].text))
       ELSE InfoLoop(parts, i + 1, msg \o Pushed(parts[i]), string_info)

\* the String a builder returns
Message(s) == [ok |-> TRUE, msg |-> s]

\* info_msg.rs: build_info_msg
build_info_msg(parts) ==
  LET end == InfoLoop(parts, 1, "info", None)
      msg == end[1]
      string_info == end[2]
  IN  IF string_info.some THEN Message(msg \o " string " \o string_info.value)
      ELSE Message(msg)

----------------------------------------------------------------------------
(* build_option_msg                                                        *)

OptionMsg(id, option_type, default, min, max, var) ==
  [id |-> id, option_type |-> option_type, default |-> default,
   min |-> min, max |-> max, var |-> var]

new_spin(id, default, min, max) == OptionMsg(id, "Spin", default, min, max, <<>>)
new_combo(id, default, var) == OptionMsg(id, "Combo", default, 0, 0, var)
new_button(id) == OptionMsg(id, "Button", "", 0, 0, <<>>)
new_string(id, default) == OptionMsg(id, "String", default, 0, 0, <<>>)
new_check(id, default) ==
  OptionMsg(id, "Check", IF default THEN "true" ELSE "false", 0, 0, <<>>)

has_min_max(opt) == opt.option_type = "Spin"

has_var(opt) == opt.option_type = "Combo"

has_default_Always(opt) == TRUE

has_default(opt) == opt.option_type # "Button"

\* the keyword of an OptionType
TypeKeyword(option_type) ==
  CASE option_type = "Check" -> "check"
    [] option_type = "Spin" -> "spin"
    [] option_type = "Combo" -> "combo"
    [] option_type = "Button" -> "button"
    [] option_type = "String" -> "string"

\* option_msg.rs: build_option_msg
build_option_msg(opt) ==
  LET msg1 == "option name " \o opt.id \o " type " \o TypeKeyword(opt.option_type)
      msg2 == IF has_default(opt) THEN msg1 \o " default " \o opt.default ELSE msg1
      msg3 == IF has_min_max(opt) /\ opt.min # opt.max
              THEN msg2 \o " min " \o Display(opt.min) \o " max " \o Display(opt.max)
              ELSE msg2
      msg4 == IF has_var(opt) /\ Len(opt.var) > 0
              THEN msg3 \o " var " \o Join(opt.var)
              ELSE msg3
  IN  Message(msg4)

----------------------------------------------------------------------------
(* Inputs of the builders                                                  *)

MaxInfoLen == 2
MaxCoreLen == 4

MoveLists == {<<>>, <<"e2e4">>, <<"e2e4", "e7e5">>}

Scores ==
  {Score(s, lb, ub) : s \in {Cp(100), Cp(-25), Mate(3), Mate(-2)},
                      lb \in BOOLEAN, ub \in BOOLEAN}

MoveInfos ==
  {Depth(1), SelDepth(2), Time(1500), Nodes(0), MultiPv(1), HashFull(999),
   Nps(12345), TbHits(7), Cpuload(50), CurrMove("e2e4"), CurrMoveNumber(3),
   Custom("x"), Custom("hello world")}
    \cup {Pv(ms) : ms \in MoveLists}
    \cup {Refutation(ms) : ms \in MoveLists}
    \cup {CurrLine(1, ms) : ms \in MoveLists}
    \cup Scores

\* the entries of the longer lists
CoreInfos == {Depth(1), SelDepth(2), Custom("x"), Custom("y"), Score(Cp(100), TRUE, TRUE)}

\* the list of tests::accepts_full_input: every variant once
FullInfo ==
  <<Depth(1), SelDepth(2), Time(3), Nodes(4), Pv(<<"e2e4", "e7e5">>),
    Score(Cp(100), FALSE, FALSE), CurrMove("e2e4"), CurrMoveNumber(5), HashFull(6),
    Nps(7), TbHits(8), Cpuload(9), Custom("custom"), Refutation(<<"e2e4", "e7e5">>),
    MultiPv(10), CurrLine(11, <<"e2e4", "e7e5">>)>>

InfoLists ==
  SeqsUpTo(MoveInfos, MaxInfoLen) \cup SeqsUpTo(CoreInfos, MaxCoreLen) \cup {FullInfo}

OptionTypes == {"Check", "Spin", "Combo", "Button", "String"}

\* every OptionMsg over a few values of each public field, among them the
\* ones the constructors build
OptionMsgs ==
  {OptionMsg(id, t, d, mm[1], mm[2], var) :
     id \in {"Hash", "B"}, t \in OptionTypes, d \in {"", "16", "true"},
     mm \in {<<0, 0>>, <<1, 128>>, <<-3, -3>>, <<-2, 7>>},
     var \in {<<>>, <<"a">>, <<"a", "b">>}}
    \cup {new_spin("UCI_Elo", "1350", 1350, 2850), new_combo("Style", "Normal", <<"Solid", "Normal">>),
          new_button("B"), new_string("Path", "c:"), new_check("UCI_AnalyseMode", FALSE),
          new_check("Ponder", TRUE)}

----------------------------------------------------------------------------
(* The builders as a state machine: one builder is called on its argument  *)

InitMsg ==
  /\ line = ""
  /\ tokens = <<>>
  /\ \/ info \in InfoLists /\ option = NoOption
     \/ info = NoInfo /\ option \in OptionMsgs
  /\ fn = "none"
  /\ pc = "ready"
  /\ it = 0 /\ token = 0 /\ movetime = "0" /\ infinite = FALSE
  /\ result = NoResult

BuildInfo == Call("build_info_msg", build_info_msg(info))

BuildOption == Call("build_option_msg", build_option_msg(option))

NextMsg ==
  \/ BuildInfo
  \/ BuildOption

SpecMsg == InitMsg /\ [][NextMsg]_vars

----------------------------------------------------------------------------
(* Properties of the builders (SpecMsg)                                    *)

RECURSIVE ConcatAll(_)
ConcatAll(strs) == IF Len(strs) = 0 THEN "" ELSE strs[1] \o ConcatAll(Tail(strs))

IsCustom(part) == part.tag = "Custom"
NotCustom(part) == part.tag # "Custom"

\* the fragments of the entries that are not Custom, in the order supplied
FragmentsInOrder(parts) ==
  LET others == SelectSeq(parts, NotCustom)
  IN  [k \in 1..Len(others) |-> Pushed(others[k])]

\* C17: build_info_msg returns "info" followed by one space-prefixed fragment
\* per non-Custom entry in the order supplied; a Custom entry produces no
\* fragment at its own position, and if the list holds a Custom entry one
\* " string <text>" fragment is appended once, after every other fragment.
C17_CustomLast ==
  CmdDone("build_info_msg") =>
    LET fragments == FragmentsInOrder(info)
        body == "info" \o ConcatAll(fragments)
        customs == {k \in 1..Len(info) : IsCustom(info[k])}
    IN  /\ \A k \in 1..Len(fragments) : Ch(fragments[k], 1) = " "
        /\ customs = {} => result = Message(body)
        /\ customs # {} =>
             \E k \in customs : result = Message(body \o " string " \o info[k].text)

C17_Witness ==
  /\ CmdDone("build_info_msg")
  /\ info = <<Depth(1), Custom("x"), SelDepth(2)>>
  /\ result = Message("info depth 1 seldepth 2 string x")

\* the fragment of a Score entry, by the four settings of the flags
ScoreFragment(part) ==
  LET head == (IF part.score.kind = "Cp" THEN " score cp " ELSE " score mate ")
                \o Display(part.score.v)
  IN  CASE ~part.lower_bound /\ ~part.upper_bound -> head
        [] part.lower_bound /\ ~part.upper_bound -> head \o " lowerbound"
        [] ~part.lower_bound /\ part.upper_bound -> head \o " upperbound"
        [] part.lower_bound /\ part.upper_bound -> head \o " lowerbound upperbound"

\* C19: for a Score entry build_info_msg appends " score cp <n>" or
\* " score mate <n>", then " lowerbound" iff lower_bound is set, then
\* " upperbound" iff upper_bound is set; with both flags, lowerbound first.
C19_ScoreFormat ==
  CmdDone("build_info_msg") =>
    LET others == SelectSeq(info, NotCustom)
        expected == [k \in 1..Len(others) |->
                       IF others[k].tag = "Score" THEN ScoreFragment(others[k])
                       ELSE Pushed(others[k])]
        customs == {k \in 1..Len(info) : IsCustom(info[k])}
        ending == IF customs = {} THEN ""
                  ELSE " string " \o info[Greatest(customs)].text
    IN  result = Message("info" \o ConcatAll(expected) \o ending)

C19_Witness ==
  /\ CmdDone("build_info_msg")
  /\ info = <<Score(Cp(100), TRUE, TRUE)>>
  /\ result = Message("info score cp 100 lowerbound upperbound")

\* C18: build_option_msg emits "option name <id> type <kind>", then
\* " default <default>" iff the kind is not Button, then " min <min> max <max>"
\* iff the kind is Spin and min != max, then " var <v1> <v2> ..." iff the kind
\* is Combo and the list of values is not empty, in that order; for Button
\* nothing follows the kind, whatever the other fields hold.
C18_OptionFragments ==
  CmdDone("build_option_msg") =>
    LET kind == CHOOSE kw \in {"check", "spin", "combo", "button", "string"} :
                  <<option.option_type, kw>> \in
                    {<<"Check", "check">>, <<"Spin", "spin">>, <<"Combo", "combo">>,
                     <<"Button", "button">>, <<"String", "string">>}
        head == "option name " \o option.id \o " type " \o kind
        default == IF option.option_type # "Button"
                   THEN " default " \o option.default ELSE ""
        minmax == IF option.option_type = "Spin" /\ option.min # option.max
                  THEN " min " \o Display(option.min) \o " max " \o Display(option.max)
                  ELSE ""
        var == IF option.option_type = "Combo" /\ option.var # <<>>
               THEN " var " \o Join(option.var) ELSE ""
    IN  /\ result = Message(head \o default \o minmax \o var)
        /\ option.option_type = "Button" => result = Message(head)

C18_Witness ==
  /\ CmdDone("build_option_msg")
  /\ option = OptionMsg("B", "Button", "16", -2, 7, <<"a", "b">>)
  /\ result = Message("option name B type button")

----------------------------------------------------------------------------
(* Several Custom entries in one list (SpecMsg)                            *)

\* the positions where `sub` occurs in `s`
Occurrences(sub, s) ==
  {i \in 1..(Len(s) - Len(sub) + 1) : SubSeq(s, i, i + Len(sub) - 1) = sub}

\* C22: when the list given to build_info_msg holds several Custom entries
\* the output has exactly one " string <text>" fragment, its text is that of
\* the last Custom entry, and the text of an earlier Custom entry (other than
\* that of the last) occurs nowhere in the output.
C22_LastCustomOnly ==
  CmdDone("build_info_msg") =>
    LET customs == {k \in 1..Len(info) : IsCustom(info[k])}
        last == Greatest(customs)
        ending == " string " \o info[last].text
    IN  Cardinality(customs) >= 2 =>
          /\ result = Message("info" \o ConcatAll(FragmentsInOrder(info)) \o ending)
          /\ Occurrences(" string ", result.msg) = {Len(result.msg) - Len(ending) + 1}
          /\ \A k \in customs :
               info[k].text # info[last].text => Occurrences(info[k].text, result.msg) = {}

C22_Witness ==
  /\ CmdDone("build_info_msg")
  /\ info = <<Custom("x"), Depth(1), Custom("y")>>
  /\ result = Message("info depth 1 string y")

----------------------------------------------------------------------------
(* Every parser on every command: the commands of Spec, those of SpecCmd   *)
(* and the tokens of the free lines, each handed to each parser.           *)

ParserInputs ==
  Inputs \cup OptionInputs \cup DebugInputs \cup LiteralInputs
    \cup {Command_new(l) : l \in LinesUpTo(MaxLineLen)}
    \cup {<<"setoption", "name", "value", "value", "name">>, <<"setoption", "value", "5">>}

InitParsers ==
  /\ tokens \in ParserInputs
  /\ line = Join(tokens)
  /\ info = NoInfo
  /\ option = NoOption
  /\ fn = "none"
  /\ pc = "ready"
  /\ it = 0 /\ token = 0 /\ movetime = "0" /\ infinite = FALSE
  /\ result = NoResult

NextParsers ==
  \/ ParsePosition
  \/ GoEnter
  \/ GoMovetime
  \/ GoInfinite
  \/ GoUnknown
  \/ GoReturn
  \/ ParseUci
  \/ ParseIsReady
  \/ ParseNewGame
  \/ ParseStop
  \/ ParseQuit
  \/ ParseDebug
  \/ ParseOption

SpecParsers == InitParsers /\ [][NextParsers]_vars

----------------------------------------------------------------------------
(* The index expressions of the parsers.  An access is the length of the   *)
(* indexed list, the (0-based) index, and whether it is a slice `[i..]`    *)
(* (in range iff i <= len) or an element `[i]` (in range iff i < len).     *)
(* Iterator::next returns an Option and indexes nothing.                   *)

IndexOf(list, i) == [len |-> Len(list), from |-> i, slice |-> FALSE]
SliceOf(list, i) == [len |-> Len(list), from |-> i, slice |-> TRUE]

InRange(a) == IF a.slice THEN a.from <= a.len ELSE a.from < a.len

PositionAccesses_UnguardedSlice(toks) ==
  IF Len(toks) < 2 THEN {}
  ELSE {SliceOf(toks, 1), SliceOf(MovesSegment(toks), 1)}

\* try_parse_position_cmd: the accesses on the path the call takes
PositionAccesses(toks) ==
  IF Len(toks) < 2 THEN {}
  ELSE
    LET ft == fen_tokens(toks)
        offset == 1 + Len(ft)
        moves == MovesSegment(toks)
    IN  {SliceOf(toks, 1)}
          \cup (IF Len(ft) = 1 THEN {IndexOf(ft, 0)} ELSE {})
          \cup (IF Len(ft) = 7 THEN {SliceOf(ft, 1)} ELSE {})
          \cup (IF Len(ft) \in {1, 7} /\ is_valid_fen(FenCandidate(toks))
                THEN (IF Len(toks) > offset THEN {SliceOf(toks, offset)} ELSE {})
                       \cup (IF Len(moves) > 0 THEN {SliceOf(moves, 1)} ELSE {})
                       \cup (IF \E i \in 1..Len(fen_moves(toks)) :
                                  ~is_valid_move(fen_moves(toks)[i])
                             THEN {IndexOf(fen_moves(toks), 0)} ELSE {})
                ELSE {})

\* try_parse_go_cmd: tokens[0], then tokens[1..] for the iterator
GoAccesses(toks) ==
  IF Len(toks) < 2 THEN {}
  ELSE {IndexOf(toks, 0)} \cup (IF toks[1] = "go" THEN {SliceOf(toks, 1)} ELSE {})

\* try_parse_option_cmd: tokens[0], then tokens[1..] for the iterator
OptionAccesses(toks) ==
  IF Len(toks) < 3 THEN {}
  ELSE {IndexOf(toks, 0)} \cup (IF toks[1] = "setoption" THEN {SliceOf(toks, 1)} ELSE {})

\* try_single_token_cmd and try_parse_uci_cmd: tokens[0]
SingleTokenAccesses(toks) ==
  IF Len(toks) # 1 THEN {} ELSE {IndexOf(toks, 0)}

\* try_parse_debug_cmd: tokens[0], then tokens[1]
DebugAccesses(toks) ==
  IF Len(toks) # 2 THEN {}
  ELSE {IndexOf(toks, 0)} \cup (IF toks[1] = "debug" THEN {IndexOf(toks, 1)} ELSE {})

\* the accesses of the parser that was called
Accesses ==
  CASE fn = "try_parse_position_cmd" -> PositionAccesses(tokens)
    [] fn = "try_parse_go_cmd" -> GoAccesses(tokens)
    [] fn = "try_parse_option_cmd" -> OptionAccesses(tokens)
    [] fn = "try_parse_debug_cmd" -> DebugAccesses(tokens)
    [] fn \in {"try_parse_uci_cmd", "try_parse_is_ready_cmd", "try_parse_uci_new_game_cmd",
               "try_parse_stop_cmd", "try_parse_quit_cmd"} -> SingleTokenAccesses(tokens)
    [] OTHER -> {}

----------------------------------------------------------------------------
(* Keyword literals in argument position (SpecParsers)                     *)

\* C23: an argument-taking keyword consumes the next token even when that
\* token is itself a keyword literal: "go movetime infinite" fails with
\* UnknownToken{"infinite"} and never sets the infinite flag, "setoption name
\* value value name" succeeds with name "value" and value "name", and a
\* setoption command without a "name" keyword succeeds with an empty name.
C23_KeywordAsArgument ==
  /\ (fn = "try_parse_go_cmd" /\ token # 0 /\ tokens[token] = "movetime"
        /\ token < Len(tokens) /\ tokens[token + 1] \in {"movetime", "infinite"}) =>
       /\ it = token + 2
       /\ pc = "done"
       /\ result = UnknownToken(tokens[token + 1])
       /\ (\A k \in 2..(token - 1) : tokens[k] # "infinite") => ~infinite
  /\ tokens = <<"go", "movetime", "infinite">> =>
       /\ ~infinite
       /\ GoDone => result = UnknownToken("infinite")
  /\ CmdDone("try_parse_option_cmd") =>
       /\ tokens = <<"setoption", "name", "value", "value", "name">>
            => result = OptionCommandPayload("value", "name")
       /\ tokens = <<"setoption", "value", "5">> => result = OptionCommandPayload("", "5")
       /\ (Len(tokens) >= 3 /\ tokens[1] = "setoption" /\ BadKeywords(tokens) = {}
             /\ KeywordPositions(tokens, "name") = {})
            => (result.ok /\ result.name = "")

C23_Witness ==
  /\ GoDone
  /\ tokens = <<"go", "movetime", "infinite">>
  /\ result = UnknownToken("infinite")
  /\ ~infinite

C23_OptionCase ==
  /\ CmdDone("try_parse_option_cmd")
  /\ tokens = <<"setoption", "name", "value", "value", "name">>
  /\ result = OptionCommandPayload("value", "name")

----------------------------------------------------------------------------
(* Totality of the parsers (SpecParsers)                                   *)

ParsingErrorKinds == {"InvalidCommandType", "InvalidLength", "UnknownToken"}

\* what a parser may return
Returned(r) == r.ok \/ r.err \in ParsingErrorKinds

\* every parser returns on the command; try_parse_go_cmd, which is modelled
\* step by step, can be entered
EveryParserCallable ==
  /\ Returned(try_parse_position_cmd(tokens))
  /\ Returned(try_parse_uci_cmd(tokens))
  /\ Returned(try_parse_is_ready_cmd(tokens))
  /\ Returned(try_parse_uci_new_game_cmd(tokens))
  /\ Returned(try_parse_stop_cmd(tokens))
  /\ Returned(try_parse_quit_cmd(tokens))
  /\ Returned(try_parse_debug_cmd(tokens))
  /\ Returned(try_parse_option_cmd(tokens))
  /\ ENABLED GoEnter

\* C21: every parser is total over arbitrary token sequences, the empty one
\* included: a call can be made on every command, the scan of
\* try_parse_go_cmd always has a next step and each step consumes a token or
\* returns, a returned value is Ok or one of the three ParsingError kinds, and
\* every index or slice expression evaluated is within the indexed list (the
\* moves[1..] slice and the fen_moves[0] access included).
C21_ParsersTotal ==
  /\ [](/\ pc = "ready" => EveryParserCallable
        /\ pc = "go_scan" =>
             /\ it \in 2..(Len(tokens) + 1)
             /\ ENABLED (GoMovetime \/ GoInfinite \/ GoUnknown \/ GoReturn)
        /\ pc = "done" => Returned(result)
        /\ \A a \in Accesses : InRange(a))
  /\ [][pc = "go_scan" => (it' > it \/ pc' = "done")]_vars

\* an invalid move after a valid position: fen_moves[0] is read, in range
C21_Witness ==
  /\ PositionDone
  /\ tokens = <<"position", "startpos", "moves", "bad">>
  /\ IndexOf(fen_moves(tokens), 0) \in Accesses
  /\ SliceOf(MovesSegment(tokens), 1) \in Accesses
  /\ result = UnknownToken("bad")

====
